---------------------------- MODULE Spec2Model ----------------------------
(***************************************************************************)
(* Model of the personal reading-list API: the articles table and its      *)
(* store functions (models/article.go), the article HTTP handlers          *)
(* (handlers/article.go), the background ingestion goroutine               *)
(* (services/article_processor.go), and the bearer tokens: AuthMiddleware, *)
(* LogoutUser and the revoked_tokens table.                                *)
(*                                                                         *)
(* Text that the code joins or splits (tags) is a sequence of one-letter   *)
(* strings, so that strings.Join and strings.Split are computed.  Other    *)
(* text (urls, titles, summaries, statuses) is an atom.  Timestamps are a  *)
(* logical clock per row: every write to a row advances its updated_at.    *)
(***************************************************************************)
EXTENDS Naturals, Sequences, FiniteSets

\* ------------------------------------------------------------------ bounds

\* Articles that may be submitted while the process runs (ids handed out by
\* GenerateUUID).
MaxArticles == 1

\* Requests to the status, tags, delete and logout endpoints, and requests
\* the middleware turns away.
MaxUserReqs == 2

\* ------------------------------------------------------------- input sets

\* The id of a row that the database file holds when the process starts.
StoredId == MaxArticles + 1

Ids == 1..StoredId

Users == {"u1", "u2"}

\* The url of a submission request; "" is rejected by the handler.
SubmittedURL == "http://x.test/a"

RedirectURL == "http://x.test/b"

RequestURLs == {"", SubmittedURL}

\* http.StatusOK
StatusOK == 200

\* The status codes a fetched page answers with.
ResponseCodes == {StatusOK, 404}

\* What doc.Find("title").Text() yields.
TitleTexts == {"", " ", "T"}

\* What the summary response's Text() yields.
SummaryTexts == {"", "S"}

\* What the tags response's Text() yields: "", "a, b,c" and "a,,a".
TagTexts ==
    {<< >>, <<"a", ",", " ", "b", ",", "c">>, <<"a", ",", ",", "a">>}

\* The status values a client may send to the status endpoint.
RequestStatuses == {"read", "unread", "processing", "archived"}

\* The tag lists a client may send to the tags endpoint.
RequestTags == {<< >>, << <<"x">>, <<"y">> >>}

\* ----------------------------------------------------------- text helpers

\* strings.Join(elems, ","): the elements with one comma between neighbours.
RECURSIVE Join(_)
Join(elems) ==
    IF Len(elems) = 0 THEN << >>
    ELSE IF Len(elems) = 1 THEN elems[1]
    ELSE elems[1] \o <<",">> \o Join(Tail(elems))

\* strings.Split(s, ","): cut at every comma; always at least one element.
RECURSIVE SplitFrom(_, _)
SplitFrom(s, cur) ==
    IF Len(s) = 0 THEN <<cur>>
    ELSE IF Head(s) = "," THEN <<cur>> \o SplitFrom(Tail(s), << >>)
    ELSE SplitFrom(Tail(s), Append(cur, Head(s)))

\* Split as it would be if it dropped the blanks.
SplitTrimming(s) == SplitFrom(SelectSeq(s, LAMBDA c : c # " "), << >>)

Split(s) == SplitFrom(s, << >>)

\* A table or map with key k set to v.
Put(f, k, v) == [x \in DOMAIN f \cup {k} |-> IF x = k THEN v ELSE f[x]]

\* A table without key k.
Drop(f, k) == [x \in DOMAIN f \ {k} |-> f[x]]


\* ------------------------------------------------------------------ state

VARIABLES
    db,        \* the articles table: id -> row
    article,   \* the Article values in memory: id -> struct, shared by the
               \* submit handler and the goroutine it launched
    run,       \* the ProcessNewArticle goroutines: id -> position and locals
    handler,   \* the SubmitArticle handlers past the insert: id -> position
    httpResp,  \* the last HTTP exchange: the user and article id of the
               \* request, the status code of the response, and in body the
               \* article the response carries, if any
    nextId,    \* the next id GenerateUUID hands out
    nreq,      \* requests served by the status, tags, delete and logout
               \* endpoints, and requests the middleware turned away
    apiKey,    \* whether GEMINI_API_KEY is set in the process environment
    alive,     \* whether the process is running (log.Fatal ends it)
    revoked    \* the revoked_tokens table: the tokens in it

vars ==
    <<db, article, run, handler, httpResp, nextId, nreq, apiKey, alive, revoked>>

\* The Article a submission builds (ID 0 stands for the empty ID).
NewArticle(userID, url) ==
    [ID |-> 0, UserID |-> userID, URL |-> url, Title |-> "", Summary |-> "",
     Tags |-> << >>, Status |-> "processing"]

\* The locals of a goroutine that has just been launched.
NewRun ==
    [pc |-> "fetch", resolved |-> "", summaryText |-> "", tagsText |-> << >>,
     calls |-> << >>, saves |-> 0, rows |-> 0, exit |-> ""]

\* A goroutine that has returned after logging `exit`: its locals are gone,
\* what it did (the enrichment calls, the Save calls and the rows they
\* changed) stays on record.
Exit(r, exit) == [NewRun EXCEPT !.pc = "done", !.exit = exit, !.calls = r.calls,
                                !.saves = r.saves, !.rows = r.rows]

\* The structs still referenced: by a handler that has yet to encode its
\* article, or by a goroutine that has yet to return.
Referenced(arts, runs, handlers) ==
    [id \in {i \in DOMAIN arts : runs[i].pc # "done" \/ handlers[i] # "done"}
        |-> arts[id]]

\* ------------------------------------------------------------------ store

\* The selection as it would be with WHERE id=? alone.
MatchingAnyOwner(table, id, userID) == {i \in DOMAIN table : i = id}

\* The rows a statement's WHERE id=? AND user_id=? selects.
Matching(table, id, userID) ==
    {i \in DOMAIN table : i = id /\ table[i].user_id = userID}

\* Save as it would be if it put the row back when its UPDATE matched none
\* (an upsert).
SaveUpserting(table, a, newID, dbOK) ==
    LET b == IF a.ID = 0 THEN [a EXCEPT !.ID = newID] ELSE a
        row == [user_id |-> b.UserID, url |-> b.URL, title |-> b.Title,
                summary |-> b.Summary, tags |-> Join(b.Tags),
                status |-> b.Status,
                updated_at |-> IF b.ID \in DOMAIN table
                               THEN table[b.ID].updated_at + 1 ELSE 1]
    IN  IF dbOK
        THEN [db |-> Put(table, b.ID, row), a |-> b, err |-> "nil", rows |-> 1]
        ELSE [db |-> table, a |-> b, err |-> "db", rows |-> 0]

\* Save as it would be if its UPDATE left the tags column out.
SaveWithoutTags(table, a, newID, dbOK) ==
    IF a.ID = 0
    THEN LET b == [a EXCEPT !.ID = newID]
             row == [user_id |-> b.UserID, url |-> b.URL, title |-> b.Title,
                     summary |-> b.Summary, tags |-> Join(b.Tags),
                     status |-> b.Status, updated_at |-> 1]
         IN  IF dbOK
             THEN [db |-> Put(table, b.ID, row), a |-> b, err |-> "nil", rows |-> 1]
             ELSE [db |-> table, a |-> b, err |-> "db", rows |-> 0]
    ELSE IF dbOK
         THEN [db |-> [i \in DOMAIN table |->
                          IF i \in Matching(table, a.ID, a.UserID)
                          THEN [table[i] EXCEPT
                                   !.url = a.URL, !.title = a.Title,
                                   !.summary = a.Summary,
                                   !.status = a.Status,
                                   !.updated_at = @ + 1]
                          ELSE table[i]],
               a |-> a, err |-> "nil",
               rows |-> Cardinality(Matching(table, a.ID, a.UserID))]
         ELSE [db |-> table, a |-> a, err |-> "db", rows |-> 0]

\* Article.Save: insert when the ID is empty, update all mutable columns of
\* the row (id, user_id) otherwise.  dbOK: the statement executes; newID: what
\* GenerateUUID returns.  Yields the table, the struct, the error, and in rows
\* the rows affected that Exec reports and Save discards.
Save(table, a, newID, dbOK) ==
    IF a.ID = 0
    THEN LET b == [a EXCEPT !.ID = newID]
             row == [user_id |-> b.UserID, url |-> b.URL, title |-> b.Title,
                     summary |-> b.Summary, tags |-> Join(b.Tags),
                     status |-> b.Status, updated_at |-> 1]
         IN  IF dbOK
             THEN [db |-> Put(table, b.ID, row), a |-> b, err |-> "nil", rows |-> 1]
             ELSE [db |-> table, a |-> b, err |-> "db", rows |-> 0]
    ELSE IF dbOK
         THEN [db |-> [i \in DOMAIN table |->
                          IF i \in Matching(table, a.ID, a.UserID)
                          THEN [table[i] EXCEPT
                                   !.url = a.URL, !.title = a.Title,
                                   !.summary = a.Summary, !.tags = Join(a.Tags),
                                   !.status = a.Status,
                                   !.updated_at = @ + 1]
                          ELSE table[i]],
               a |-> a, err |-> "nil",
               rows |-> Cardinality(Matching(table, a.ID, a.UserID))]
         ELSE [db |-> table, a |-> a, err |-> "db", rows |-> 0]

\* models.DeleteArticle
DeleteArticle(table, id, userID, dbOK) ==
    IF ~dbOK THEN [db |-> table, err |-> "db"]
    ELSE IF Matching(table, id, userID) = {}
    THEN [db |-> table, err |-> "not found or not owned"]
    ELSE [db |-> Drop(table, id), err |-> "nil"]

\* models.UpdateArticleStatus
UpdateArticleStatus(table, id, userID, newStatus, dbOK) ==
    IF ~dbOK THEN [db |-> table, err |-> "db"]
    ELSE IF Matching(table, id, userID) = {}
    THEN [db |-> table, err |-> "not found or not owned"]
    ELSE [db |-> [i \in DOMAIN table |->
                     IF i \in Matching(table, id, userID)
                     THEN [table[i] EXCEPT !.status = newStatus,
                                           !.updated_at = @ + 1]
                     ELSE table[i]],
          err |-> "nil"]

\* models.UpdateArticleTags
UpdateArticleTags(table, id, userID, newTags, dbOK) ==
    IF ~dbOK THEN [db |-> table, err |-> "db"]
    ELSE IF Matching(table, id, userID) = {}
    THEN [db |-> table, err |-> "not found or not owned"]
    ELSE [db |-> [i \in DOMAIN table |->
                     IF i \in Matching(table, id, userID)
                     THEN [table[i] EXCEPT !.tags = Join(newTags),
                                           !.updated_at = @ + 1]
                     ELSE table[i]],
          err |-> "nil"]

\* ------------------------------------------------------------------ reads

\* The Article a SELECT's row is scanned into: the tags column is split.
Scan(id, row) ==
    [ID |-> id, UserID |-> row.user_id, URL |-> row.url, Title |-> row.title,
     Summary |-> row.summary, Tags |-> Split(row.tags), Status |-> row.status,
     UpdatedAt |-> row.updated_at]

UpperCase == <<"A", "B", "C", "T", "X", "Y">>

LowerCase == <<"a", "b", "c", "t", "x", "y">>

\* SQLite's LIKE compares ASCII letters without regard to case.
Fold(c) ==
    IF \E k \in 1..Len(UpperCase) : UpperCase[k] = c
    THEN LowerCase[CHOOSE k \in 1..Len(UpperCase) : UpperCase[k] = c]
    ELSE c

\* text LIKE pattern: % stands for any text, _ for any one letter.
RECURSIVE Like(_, _)
Like(text, pattern) ==
    IF Len(pattern) = 0 THEN Len(text) = 0
    ELSE IF Head(pattern) = "%"
    THEN \/ Like(text, Tail(pattern))
         \/ Len(text) > 0 /\ Like(Tail(text), pattern)
    ELSE /\ Len(text) > 0
         /\ Head(pattern) = "_" \/ Fold(Head(pattern)) = Fold(Head(text))
         /\ Like(Tail(text), Tail(pattern))

\* GetArticleByID as it would be with WHERE id = ? alone.
GetArticleByIDAnyOwner(table, id, userID) ==
    IF id \in DOMAIN table THEN <<Scan(id, table[id])>> ELSE << >>

\* models.GetArticleByID: the article in a one-element sequence, or << >>
\* for the nil it returns when no row matches.
GetArticleByID(table, id, userID) ==
    IF Matching(table, id, userID) = {} THEN << >> ELSE <<Scan(id, table[id])>>

\* models.GetArticlesByUserID: the articles of the rows selected (the query
\* states no order); an empty filter is left out of the query.
GetArticlesByUserID(table, userID, statusFilter, tagFilter) ==
    {Scan(i, table[i]) :
        i \in {j \in DOMAIN table :
                  /\ table[j].user_id = userID
                  /\ statusFilter = "" \/ table[j].status = statusFilter
                  /\ \/ Len(tagFilter) = 0
                     \/ Like(table[j].tags, <<"%">> \o tagFilter \o <<"%">>)}}

\* models.GetTagsByUserID: the set of the tags of the user's rows.
GetTagsByUserID(table, userID) ==
    UNION {{Split(table[i].tags)[k] : k \in 1..Len(Split(table[i].tags))} :
              i \in {j \in DOMAIN table : table[j].user_id = userID}}

\* The filters a client may send with a list request.
StatusFilters == {"", "read", "processing"}

TagFilters == {<< >>, <<"x">>}

\* ------------------------------------------------------------ the handlers

\* An exchange whose response carries no article.
Answer(userID, id, code) ==
    [user |-> userID, id |-> id, code |-> code, body |-> << >>]

\* The articles table the process may find at its start: empty, or with an
\* article stored and processed while the process ran before.
StoredTables ==
    {<< >>,
     Put(<< >>, StoredId,
         [user_id |-> "u2", url |-> SubmittedURL, title |-> "T",
          summary |-> "S", tags |-> <<"x">>, status |-> "read",
          updated_at |-> 3])}

Init ==
    /\ db \in StoredTables
    /\ article = << >>
    /\ run = << >>
    /\ handler = << >>
    /\ httpResp = Answer("", 0, 0)
    /\ nextId = 1
    /\ nreq = 0
    /\ apiKey \in BOOLEAN
    /\ alive = TRUE
    /\ revoked = {}

\* ------------------------------------------------------- authentication

\* The bearer tokens clients hold: one for each user that has not expired,
\* and one that has.
Tokens ==
    {[UserID |-> u, expired |-> FALSE] : u \in Users}
    \cup {[UserID |-> "u1", expired |-> TRUE]}

\* The tokens clients log out with.
LogoutTokens == {t \in Tokens : t.UserID = "u1" /\ ~t.expired}

\* AuthMiddleware: the user id it puts into the request's context, or "" when
\* it answers 401 (the token does not parse, or it has expired).
AuthMiddleware(token) == IF token.expired THEN "" ELSE token.UserID

\* The tokens whose requests reach the handlers.
Passing == {t \in Tokens : AuthMiddleware(t) # ""}

\* A request to a protected route that AuthMiddleware answers with 401.
Unauthorized(token) ==
    /\ alive
    /\ nreq < MaxUserReqs
    /\ AuthMiddleware(token) = ""
    /\ nreq' = nreq + 1
    /\ httpResp' = Answer("", 0, 401)
    /\ UNCHANGED <<db, article, run, handler, nextId, apiKey, alive, revoked>>

\* models.RevokeToken: the insert fails when the statement does not execute
\* or the token, the primary key, is in the table already.
RevokeToken(table, token, dbOK) ==
    IF dbOK /\ token \notin table
    THEN [revoked |-> table \cup {token}, err |-> "nil"]
    ELSE [revoked |-> table, err |-> "db"]

\* handlers.LogoutUser with a bearer token that parses: the token is put
\* into revoked_tokens, unverified.
LogoutUser(token, dbOK) ==
    /\ alive
    /\ nreq < MaxUserReqs
    /\ nreq' = nreq + 1
    /\ LET r == RevokeToken(revoked, token, dbOK)
       IN  /\ revoked' = r.revoked
           /\ httpResp' = Answer(token.UserID, 0,
                              IF r.err = "nil" THEN 200 ELSE 500)
    /\ UNCHANGED <<db, article, run, handler, nextId, apiKey, alive>>

\* ------------------------------------------------------------ submission

\* SubmitArticle answering 400 to an empty url.
SubmitBadRequest(userID) ==
    /\ alive
    /\ "" \in RequestURLs
    /\ httpResp' = Answer(userID, 0, 400)
    /\ UNCHANGED <<db, article, run, handler, nextId, nreq, apiKey, alive, revoked>>

\* SubmitArticle as it would be if it went on to the go statement and the
\* response when the insert had failed.
SubmitArticleLaunchingAnyway(userID, url, dbOK) ==
    /\ alive
    /\ url # ""
    /\ nextId <= MaxArticles
    /\ LET r == Save(db, NewArticle(userID, url), nextId, dbOK)
       IN  /\ nextId' = nextId + 1
           /\ db' = r.db
           /\ article' = Put(article, r.a.ID, r.a)
           /\ run' = Put(run, r.a.ID, NewRun)
           /\ handler' = Put(handler, r.a.ID, "encode")
           /\ UNCHANGED httpResp
    /\ UNCHANGED <<nreq, apiKey, alive, revoked>>

\* SubmitArticle from the new Article to the go statement: the insert, and on
\* success the launch of ProcessNewArticle on the same struct.
SubmitArticle(userID, url, dbOK) ==
    /\ alive
    /\ url # ""
    /\ nextId <= MaxArticles
    /\ LET r == Save(db, NewArticle(userID, url), nextId, dbOK)
       IN  /\ nextId' = nextId + 1
           /\ IF r.err # "nil"
              THEN /\ httpResp' = Answer(userID, 0, 500)
                   /\ UNCHANGED <<db, article, run, handler>>
              ELSE /\ db' = r.db
                   /\ article' = Put(article, r.a.ID, r.a)
                   /\ run' = Put(run, r.a.ID, NewRun)
                   /\ handler' = Put(handler, r.a.ID, "encode")
                   /\ UNCHANGED httpResp
    /\ UNCHANGED <<nreq, apiKey, alive, revoked>>

\* SubmitArticle's last lines: 201 and the struct encoded as it is now.
SubmitRespond(id) ==
    /\ alive
    /\ id \in DOMAIN handler
    /\ handler[id] = "encode"
    /\ httpResp' = [user |-> article[id].UserID, id |-> id, code |-> 201,
                    body |-> <<article[id]>>]
    /\ handler' = [handler EXCEPT ![id] = "done"]
    /\ article' = Referenced(article, run, handler')
    /\ UNCHANGED <<db, run, nextId, nreq, apiKey, alive, revoked>>

\* The validation as it would be if it let through what its error message
\* names: 'processing', 'read' or 'unread'.
StatusAcceptedAsMessageSays(status) ==
    status = "processing" \/ status = "read" \/ status = "unread"

\* The validation as it would be if it were left out.
StatusAcceptedUnchecked(status) == TRUE

\* Whether the status endpoint lets the requested status through.
StatusAccepted(status) == status = "read" \/ status = "unread"

\* handlers.UpdateArticleStatus
HandleUpdateStatus(userID, id, status, dbOK) ==
    /\ alive
    /\ nreq < MaxUserReqs
    /\ nreq' = nreq + 1
    /\ IF ~StatusAccepted(status)
       THEN /\ httpResp' = Answer(userID, id, 400)
            /\ UNCHANGED db
       ELSE LET r == UpdateArticleStatus(db, id, userID, status, dbOK)
            IN  /\ db' = r.db
                /\ httpResp' = Answer(userID, id,
                                   IF r.err = "nil" THEN 200
                                      ELSE IF r.err = "not found or not owned"
                                      THEN 404
                                      ELSE 500)
    /\ UNCHANGED <<article, run, handler, nextId, apiKey, alive, revoked>>

\* handlers.UpdateArticleTags
HandleUpdateTags(userID, id, tags, dbOK) ==
    /\ alive
    /\ nreq < MaxUserReqs
    /\ nreq' = nreq + 1
    /\ IF Len(tags) = 0
       THEN /\ httpResp' = Answer(userID, id, 400)
            /\ UNCHANGED db
       ELSE LET r == UpdateArticleTags(db, id, userID, tags, dbOK)
            IN  /\ db' = r.db
                /\ httpResp' = Answer(userID, id,
                                   IF r.err = "nil" THEN 200
                                      ELSE IF r.err = "not found or not owned"
                                      THEN 404
                                      ELSE 500)
    /\ UNCHANGED <<article, run, handler, nextId, apiKey, alive, revoked>>

\* handlers.DeleteArticle
HandleDelete(userID, id, dbOK) ==
    /\ alive
    /\ nreq < MaxUserReqs
    /\ nreq' = nreq + 1
    /\ LET r == DeleteArticle(db, id, userID, dbOK)
       IN  /\ db' = r.db
           /\ httpResp' = Answer(userID, id,
                              IF r.err = "nil" THEN 204
                                 ELSE IF r.err = "not found or not owned"
                                 THEN 404
                                 ELSE 500)
    /\ UNCHANGED <<article, run, handler, nextId, apiKey, alive, revoked>>

\* -------------------------------------------------- ProcessNewArticle

\* What http.Get(url) may return: a transport error, or a response with its
\* status code and the url of the last request (url itself, or a redirect's
\* target).
FetchOutcomes(url) ==
    {[err |-> TRUE, code |-> 0, url |-> ""]}
    \cup {[err |-> FALSE, code |-> c, url |-> u] :
             c \in ResponseCodes, u \in {url, RedirectURL}}

\* What reading and parsing the body may give: a read error, a parse error,
\* or a document with its title text.
ExtractOutcomes ==
    {[err |-> "read", title |-> ""], [err |-> "parse", title |-> ""]}
    \cup {[err |-> "nil", title |-> t] : t \in TitleTexts}

\* What genai.NewClient may return.
ClientOutcomes == {"nil", "error"}

\* What GenerateContent may return for the summary prompt.
SummaryOutcomes ==
    {[err |-> TRUE, nil |-> FALSE, text |-> ""],
     [err |-> FALSE, nil |-> TRUE, text |-> ""]}
    \cup {[err |-> FALSE, nil |-> FALSE, text |-> t] : t \in SummaryTexts}

\* What GenerateContent may return for the tags prompt.
TagsOutcomes ==
    {[err |-> TRUE, nil |-> FALSE, text |-> << >>],
     [err |-> FALSE, nil |-> TRUE, text |-> << >>]}
    \cup {[err |-> FALSE, nil |-> FALSE, text |-> t] : t \in TagTexts}

\* The fetch as it would be if a status other than 200 were handled like a
\* transport error.
FetchStepFailingOnStatus(table, a, r, o, dbOK) ==
    IF o.err \/ o.code # StatusOK
    THEN LET s == Save(table, [a EXCEPT !.Status = "failed"], 0, dbOK)
         IN  [db |-> s.db, a |-> s.a,
              run |-> Exit([r EXCEPT !.saves = @ + 1, !.rows = @ + s.rows],
                           IF o.err
                           THEN IF s.err = "nil" THEN "fetch failed"
                                ELSE "fetch failed, save failed"
                           ELSE "http status")]
    ELSE [db |-> table, a |-> a,
          run |-> [r EXCEPT !.pc = "extract", !.resolved = o.url]]

\* Lines 21-37: the fetch, the write of "failed" on a transport error, the
\* silent return on a status other than 200.
FetchStep(table, a, r, o, dbOK) ==
    IF o.err
    THEN LET s == Save(table, [a EXCEPT !.Status = "failed"], 0, dbOK)
         IN  [db |-> s.db, a |-> s.a,
              run |-> Exit([r EXCEPT !.saves = @ + 1, !.rows = @ + s.rows],
                           IF s.err = "nil" THEN "fetch failed"
                           ELSE "fetch failed, save failed")]
    ELSE IF o.code # StatusOK
    THEN [db |-> table, a |-> a,
          run |-> Exit(r, "http status")]
    ELSE [db |-> table, a |-> a,
          run |-> [r EXCEPT !.pc = "extract", !.resolved = o.url]]

\* The extraction as it would be if it left the struct's url as submitted.
ExtractStepKeepingURL(a, r, o) ==
    IF o.err = "read"
    THEN [a |-> a, run |-> Exit(r, "read failed")]
    ELSE IF o.err = "parse"
    THEN [a |-> a, run |-> Exit(r, "parse failed")]
    ELSE [a |-> [a EXCEPT !.Title = IF o.title = "" THEN a.URL ELSE o.title],
          run |-> [r EXCEPT !.pc = "client"]]

\* Lines 38-59: the body is read and parsed, the title falls back to the url
\* when it is "", and the url becomes the one the response came from.
ExtractStep(a, r, o) ==
    IF o.err = "read"
    THEN [a |-> a, run |-> Exit(r, "read failed")]
    ELSE IF o.err = "parse"
    THEN [a |-> a, run |-> Exit(r, "parse failed")]
    ELSE [a |-> [a EXCEPT !.Title = IF o.title = "" THEN a.URL ELSE o.title,
                          !.URL = r.resolved],
          run |-> [r EXCEPT !.pc = "client"]]

\* Lines 64-76: log.Fatal without the key, a return when the client cannot
\* be made.
ClientStep(r, key, o) ==
    IF ~key
    THEN [alive |-> FALSE, run |-> Exit(r, "fatal")]
    ELSE IF o = "error"
    THEN [alive |-> TRUE, run |-> Exit(r, "client failed")]
    ELSE [alive |-> TRUE, run |-> [r EXCEPT !.pc = "summary"]]

\* Lines 78-87: the summary request.
SummaryStep(r, o) ==
    LET called == [r EXCEPT !.calls = Append(@, "summary")]
    IN  IF o.err
        THEN Exit(called, "summary failed")
        ELSE IF o.nil
        THEN Exit(called, "no summary")
        ELSE [called EXCEPT !.pc = "tags", !.summaryText = o.text]

\* The tags request as it would be if it were tried again after an error.
TagsStepRetrying(r, o) ==
    LET called == [r EXCEPT !.calls = Append(@, "tags")]
    IN  IF o.err
        THEN Exit([called EXCEPT !.calls = Append(@, "tags")], "tags failed")
        ELSE IF o.nil
        THEN Exit(called, "no tags")
        ELSE [called EXCEPT !.pc = "commit", !.tagsText = o.text]

\* Lines 90-99: the tags request.
TagsStep(r, o) ==
    LET called == [r EXCEPT !.calls = Append(@, "tags")]
    IN  IF o.err
        THEN Exit(called, "tags failed")
        ELSE IF o.nil
        THEN Exit(called, "no tags")
        ELSE [called EXCEPT !.pc = "commit", !.tagsText = o.text]

\* The commit as it would be if the status were saved before the summary and
\* the tags.
CommitStepInTwoSaves(table, a, r, dbOK) ==
    LET s1 == Save(table, [a EXCEPT !.Status = "unread"], 0, dbOK)
        s2 == Save(s1.db,
                   [a EXCEPT !.Summary = r.summaryText,
                             !.Tags = Split(r.tagsText),
                             !.Status = "unread"],
                   0, dbOK)
    IN  [db |-> s2.db, a |-> s2.a,
         run |-> Exit([r EXCEPT !.saves = @ + 2, !.rows = @ + s1.rows + s2.rows],
                      IF s2.err = "nil" THEN "processed" ELSE "save failed")]

\* Lines 102-112: summary, tags and status "unread" set on the struct, then
\* one Save.
CommitStep(table, a, r, dbOK) ==
    LET s == Save(table,
                  [a EXCEPT !.Summary = r.summaryText,
                            !.Tags = Split(r.tagsText),
                            !.Status = "unread"],
                  0, dbOK)
    IN  [db |-> s.db, a |-> s.a,
         run |-> Exit([r EXCEPT !.saves = @ + 1, !.rows = @ + s.rows],
                      IF s.err = "nil" THEN "processed" ELSE "save failed")]

At(id, pc) == alive /\ id \in DOMAIN run /\ run[id].pc = pc

Fetch(id, o, dbOK) ==
    /\ At(id, "fetch")
    /\ o \in FetchOutcomes(article[id].URL)
    /\ LET n == FetchStep(db, article[id], run[id], o, dbOK)
       IN  /\ db' = n.db
           /\ run' = [run EXCEPT ![id] = n.run]
           /\ article' = Referenced([article EXCEPT ![id] = n.a], run', handler)
    /\ UNCHANGED <<handler, httpResp, nextId, nreq, apiKey, alive, revoked>>

Extract(id, o) ==
    /\ At(id, "extract")
    /\ LET n == ExtractStep(article[id], run[id], o)
       IN  /\ run' = [run EXCEPT ![id] = n.run]
           /\ article' = Referenced([article EXCEPT ![id] = n.a], run', handler)
    /\ UNCHANGED <<db, handler, httpResp, nextId, nreq, apiKey, alive, revoked>>

NewClient(id, o) ==
    /\ At(id, "client")
    /\ LET n == ClientStep(run[id], apiKey, o)
       IN  /\ alive' = n.alive
           /\ run' = [run EXCEPT ![id] = n.run]
           /\ article' = Referenced(article, run', handler)
    /\ UNCHANGED <<db, handler, httpResp, nextId, nreq, apiKey, revoked>>

Summarize(id, o) ==
    /\ At(id, "summary")
    /\ run' = [run EXCEPT ![id] = SummaryStep(run[id], o)]
    /\ article' = Referenced(article, run', handler)
    /\ UNCHANGED <<db, handler, httpResp, nextId, nreq, apiKey, alive, revoked>>

GenerateTags(id, o) ==
    /\ At(id, "tags")
    /\ run' = [run EXCEPT ![id] = TagsStep(run[id], o)]
    /\ article' = Referenced(article, run', handler)
    /\ UNCHANGED <<db, handler, httpResp, nextId, nreq, apiKey, alive, revoked>>

Commit(id, dbOK) ==
    /\ At(id, "commit")
    /\ LET n == CommitStep(db, article[id], run[id], dbOK)
       IN  /\ db' = n.db
           /\ run' = [run EXCEPT ![id] = n.run]
           /\ article' = Referenced([article EXCEPT ![id] = n.a], run', handler)
    /\ UNCHANGED <<handler, httpResp, nextId, nreq, apiKey, alive, revoked>>

\* -------------------------------------------------------- specification

Next ==
    \/ \E k \in Tokens : Unauthorized(k)
    \/ \E k \in LogoutTokens, dbOK \in BOOLEAN : LogoutUser(k, dbOK)
    \/ \E k \in Passing : SubmitBadRequest(AuthMiddleware(k))
    \/ \E k \in Passing, url \in RequestURLs, dbOK \in BOOLEAN :
          SubmitArticle(AuthMiddleware(k), url, dbOK)
    \/ \E id \in Ids : SubmitRespond(id)
    \/ \E k \in Passing, id \in Ids, s \in RequestStatuses, dbOK \in BOOLEAN :
          HandleUpdateStatus(AuthMiddleware(k), id, s, dbOK)
    \/ \E k \in Passing, id \in Ids, t \in RequestTags, dbOK \in BOOLEAN :
          HandleUpdateTags(AuthMiddleware(k), id, t, dbOK)
    \/ \E k \in Passing, id \in Ids, dbOK \in BOOLEAN :
          HandleDelete(AuthMiddleware(k), id, dbOK)
    \/ \E id \in Ids, dbOK \in BOOLEAN :
          \E o \in FetchOutcomes(SubmittedURL) : Fetch(id, o, dbOK)
    \/ \E id \in Ids, o \in ExtractOutcomes : Extract(id, o)
    \/ \E id \in Ids, o \in ClientOutcomes : NewClient(id, o)
    \/ \E id \in Ids, o \in SummaryOutcomes : Summarize(id, o)
    \/ \E id \in Ids, o \in TagsOutcomes : GenerateTags(id, o)
    \/ \E id \in Ids, dbOK \in BOOLEAN : Commit(id, dbOK)

Spec == Init /\ [][Next]_vars

\* ------------------------------------------------------------- claims

\* http.Get returning an error.
TransportError == [err |-> TRUE, code |-> 0, url |-> ""]

\* The row of article id holds what the submission created, but for its status.
AsCreated(table, id) ==
    /\ table[id].title = ""
    /\ table[id].summary = ""
    /\ table[id].tags = << >>

\* C1, as stated: whenever a run's fetch returns a transport error, then at
\* the end of the run no enrichment call was made and the row, if it still
\* exists, has status "failed" and the title, summary and tags it was
\* created with, whatever the user requests that came before.
C1_FailedOnTransportError ==
    [][\A id \in Ids, dbOK \in BOOLEAN :
          Fetch(id, TransportError, dbOK) =>
             /\ run'[id].pc = "done"
             /\ run'[id].calls = << >>
             /\ id \in DOMAIN db' =>
                   db'[id].status = "failed" /\ AsCreated(db', id)]_vars

\* C1, amended: the same, provided the store executes the run's update.  (A
\* run whose update fails leaves the row as it was and only logs.)
C1_FailedWhenUpdateExecutes ==
    [][\A id \in Ids :
          /\ Fetch(id, TransportError, TRUE) =>
                /\ run'[id].pc = "done"
                /\ run'[id].calls = << >>
                /\ id \in DOMAIN db' =>
                      db'[id].status = "failed" /\ AsCreated(db', id)
          /\ Fetch(id, TransportError, FALSE) =>
                run'[id].pc = "done" /\ run'[id].calls = << >> /\ db' = db]_vars

\* C1's case: a run ended on a transport error and its write of "failed" was
\* the second write to a row that still exists, so that a user's status or
\* tags request was served between the insert and the run's write.
C1_Witness ==
    \E id \in DOMAIN run :
        /\ run[id].exit = "fetch failed"
        /\ id \in DOMAIN db
        /\ db[id].updated_at = 3
        /\ db[id].status = "failed"
        /\ db[id].tags = << >>

\* C2: a run whose fetch, parse, summary request and tags request succeeded
\* (the texts returned are not empty) calls Save once, at its very end, and
\* that one UPDATE sets url, title, summary, tags and status "unread" of its
\* row together and changes no other row; no earlier step of the run writes.
C2_SingleCommit ==
    [][\A id \in Ids :
          /\ \A dbOK \in BOOLEAN :
                (/\ Commit(id, dbOK)
                 /\ run[id].summaryText # ""
                 /\ run[id].tagsText # << >>) =>
                   /\ run[id].saves = 0
                   /\ run'[id].saves = 1
                   /\ DOMAIN db' = DOMAIN db
                   /\ \A i \in DOMAIN db \ {id} : db'[i] = db[i]
                   /\ ~dbOK => db' = db
                   /\ (dbOK /\ id \in DOMAIN db) =>
                         db'[id] = [db[id] EXCEPT
                                       !.url = article[id].URL,
                                       !.title = article[id].Title,
                                       !.summary = run[id].summaryText,
                                       !.tags = run[id].tagsText,
                                       !.status = "unread",
                                       !.updated_at = @ + 1]
          /\ (/\ id \in DOMAIN run
              /\ run[id].pc \in {"extract", "client", "summary", "tags"}
              /\ run'[id] # run[id]) =>
                 db' = db /\ run'[id].saves = 0]_vars

\* C2's case: a run committed and its row shows the one write after the
\* insert, with the summary, the tags and "unread".
C2_Witness ==
    \E id \in DOMAIN run :
        /\ run[id].exit = "processed"
        /\ run[id].saves = 1
        /\ id \in DOMAIN db
        /\ db[id].updated_at = 2
        /\ db[id].status = "unread"
        /\ db[id].summary = "S"
        /\ db[id].tags = <<"a", ",", " ", "b", ",", "c">>

\* C3: a run whose fetch is answered with a status other than 200 ends there
\* without a Save and leaves the whole table as it was; once it has ended so,
\* it takes no further step, and its row changes only when a request to the
\* status, tags or delete endpoint is served.
C3_NoWriteOnBadStatus ==
    [][\A id \in Ids :
          /\ \A o \in FetchOutcomes(SubmittedURL), dbOK \in BOOLEAN :
                (Fetch(id, o, dbOK) /\ ~o.err /\ o.code # StatusOK) =>
                   /\ db' = db
                   /\ run'[id].pc = "done"
                   /\ run'[id].saves = 0
          /\ (id \in DOMAIN run /\ run[id].exit = "http status") =>
                /\ run'[id] = run[id]
                /\ (nreq' = nreq /\ id \in DOMAIN db) =>
                      id \in DOMAIN db' /\ db'[id] = db[id]]_vars

\* C3's case: a run ended on a status other than 200, no user request was
\* served, and the row is as the insert left it.
C3_Witness ==
    \E id \in DOMAIN run :
        /\ run[id].exit = "http status"
        /\ nreq = 0
        /\ id \in DOMAIN db
        /\ db[id].status = "processing"
        /\ db[id].updated_at = 1
        /\ AsCreated(db, id)

C5_NoLostUpdate ==
    [][\A id \in Ids :
          (/\ id \in DOMAIN run
           /\ run[id].saves = 0
           /\ run'[id].saves = 1
           /\ id \in DOMAIN db) =>
             /\ id \in DOMAIN db'
             /\ db[id].status # "processing" => db'[id].status = db[id].status
             /\ db[id].tags # << >> => db'[id].tags = db[id].tags]_vars

\* C6: when a run calls Save after its row was deleted, the table is left as
\* it was (no row comes back, no other row changes), the run ends, the
\* process keeps running and no HTTP response is affected.
C6_WriteAfterDeleteIsNoOp ==
    [][\A id \in Ids :
          (/\ id \in DOMAIN run
           /\ run'[id].saves > run[id].saves
           /\ id \notin DOMAIN db) =>
             /\ db' = db
             /\ run'[id].pc = "done"
             /\ run'[id].rows = 0
             /\ alive' = alive
             /\ httpResp' = httpResp]_vars

\* C6's case: a run's Save executed and matched no row, its article is gone
\* and another article's row is still there.
C6_Witness ==
    \E id \in DOMAIN run :
        /\ run[id].exit \in {"processed", "fetch failed"}
        /\ run[id].saves = 1
        /\ run[id].rows = 0
        /\ id \notin DOMAIN db
        /\ StoredId \in DOMAIN db

ForeignRows(u) ==
    {[user_id |-> v, url |-> RedirectURL, title |-> "T", summary |-> "S",
      tags |-> t, status |-> "read", updated_at |-> 1] :
        v \in Users \ {u}, t \in {<< >>, <<"x", ",", "z">>}}

\* The tables that differ from table only in rows of users other than u.
ForeignVariants(table, u) ==
    LET own == {i \in DOMAIN table : table[i].user_id = u}
    IN  UNION {{[i \in own \cup S |-> IF i \in S THEN f[i] ELSE table[i]] :
                   f \in [S -> ForeignRows(u)]} : S \in SUBSET (Ids \ own)}

\* C8: for every user u and every table that differs from the stored one
\* only in rows of other users, GetArticleByID, GetArticlesByUserID and
\* GetTagsByUserID give u the same results, and every article they give is
\* owned by u.
C8_ReadsIsolated ==
    \A u \in Users :
        /\ \A id \in Ids :
              \A a \in {GetArticleByID(db, id, u)} :
                  Len(a) > 0 => a[1].UserID = u /\ a[1].ID = id
        /\ \A sf \in StatusFilters, tf \in TagFilters :
              \A a \in GetArticlesByUserID(db, u, sf, tf) : a.UserID = u
        /\ \A other \in ForeignVariants(db, u) :
              /\ \A id \in Ids :
                    GetArticleByID(other, id, u) = GetArticleByID(db, id, u)
              /\ \A sf \in StatusFilters, tf \in TagFilters :
                    GetArticlesByUserID(other, u, sf, tf)
                       = GetArticlesByUserID(db, u, sf, tf)
              /\ GetTagsByUserID(other, u) = GetTagsByUserID(db, u)

\* C8's case: the table holds an article of u1 and an article of u2, and u1's
\* list is not empty.
C8_Witness ==
    /\ \E i, j \in DOMAIN db : db[i].user_id = "u1" /\ db[j].user_id = "u2"
    /\ GetArticlesByUserID(db, "u1", "", << >>) # {}
    /\ GetTagsByUserID(db, "u2") # {}

\* C9, as stated: the article in a 201 response has status "processing" and
\* the title, summary and tags it was created with.
C9_ResponseShowsProcessing ==
    httpResp.code = 201 =>
        /\ httpResp.body[1].Status = "processing"
        /\ httpResp.body[1].Title = ""
        /\ httpResp.body[1].Summary = ""
        /\ httpResp.body[1].Tags = << >>

\* Whether the run of r got past the extraction of title and body.
Extracted(r) ==
    \/ r.pc \in {"client", "summary", "tags", "commit"}
    \/ r.exit \in {"fatal", "client failed", "summary failed", "no summary",
                   "tags failed", "no tags", "processed", "save failed"}

\* C10, as stated: a run that has ended after a successful extraction has
\* made exactly two enrichment calls, the summary's and the tags', and no
\* run has made more than two.
C10_ExactlyTwoCalls ==
    \A id \in DOMAIN run :
        /\ Len(run[id].calls) <= 2
        /\ (run[id].pc = "done" /\ Extracted(run[id])) =>
              run[id].calls = <<"summary", "tags">>

\* C10, amended: no run makes more than two enrichment calls and the
\* summary's comes first; a run has made both exactly when its summary request
\* returned a response; it has made the summary's alone when that request
\* failed or returned none (or the tags request is still to come); and it
\* has made none when it ended before, at the key or the client.
C10_AtMostTwoCalls ==
    \A id \in DOMAIN run :
        LET r == run[id]
        IN  /\ Len(r.calls) <= 2
            /\ (r.pc = "commit" \/ r.exit \in {"processed", "save failed",
                                               "tags failed", "no tags"})
                  <=> r.calls = <<"summary", "tags">>
            /\ (r.pc = "tags" \/ r.exit \in {"summary failed", "no summary"})
                  <=> r.calls = <<"summary">>

\* C10's case: one run has committed after both calls, or another has ended
\* after the summary call alone.
C10_Witness ==
    \E id \in DOMAIN run :
        /\ run[id].pc = "done"
        /\ \/ run[id].exit = "processed" /\ run[id].calls = <<"summary", "tags">>
           \/ run[id].exit = "summary failed" /\ run[id].calls = <<"summary">>

\* C11, as stated: a run whose summary request or tags request fails, or
\* returns no response or an empty text, ends at that step and the table stays
\* as it is.
C11_StopsOnEmptyResult ==
    [][\A id \in Ids :
          /\ \A o \in SummaryOutcomes :
                (Summarize(id, o) /\ (o.err \/ o.nil \/ o.text = "")) =>
                   run'[id].pc = "done" /\ db' = db
          /\ \A o \in TagsOutcomes :
                (GenerateTags(id, o) /\ (o.err \/ o.nil \/ o.text = << >>)) =>
                   run'[id].pc = "done" /\ db' = db]_vars

\* The ways a run ends after its fetch was answered, short of the commit: a
\* status other than 200, a read error, a parse error, an enrichment error.
StalledExits ==
    {"http status", "read failed", "parse failed", "client failed",
     "summary failed", "no summary", "tags failed", "no tags"}

\* C12, as stated: the row of an article whose run failed after the fetch
\* has status "processing" for as long as it exists.
C12_ProcessingForever ==
    \A id \in DOMAIN run \cap DOMAIN db :
        run[id].exit \in StalledExits => db[id].status = "processing"

\* C12, amended: a run that fails after the fetch writes nothing, at that
\* step or ever after; the row of its article keeps its status until a
\* request of its owner to the status endpoint sets "read" or "unread" or a
\* request of its owner deletes it, and it never shows "failed".
C12_StalledUntilOwnerActs ==
    [][\A id \in Ids :
          (id \in DOMAIN run /\ run'[id].exit \in StalledExits) =>
             /\ run[id].saves = 0 /\ run'[id].saves = 0
             /\ run[id].pc # "done" => db' = db
             /\ run[id].pc = "done" => run'[id] = run[id]
             /\ id \in DOMAIN db' =>
                   db'[id].status \in {"processing", "read", "unread"}
             /\ id \in DOMAIN db =>
                   \/ id \in DOMAIN db' /\ db'[id].status = db[id].status
                   \/ /\ nreq' = nreq + 1
                      /\ httpResp'.user = db[id].user_id
                      /\ httpResp'.id = id
                      /\ \/ id \notin DOMAIN db' /\ httpResp'.code = 204
                         \/ /\ id \in DOMAIN db'
                            /\ db'[id].status \in {"read", "unread"}
                            /\ httpResp'.code = 200]_vars

\* C12's case: a run ended on a failed tags request and the owner then set
\* the article, still "processing", to "read".
C12_Witness ==
    \E id \in DOMAIN run \cap DOMAIN db :
        /\ run[id].exit = "tags failed"
        /\ db[id].status = "read"
        /\ db[id].updated_at = 2
        /\ httpResp = Answer(db[id].user_id, id, 200)

\* The ways a run ends after calling Save.
SavingExits ==
    {"fetch failed", "fetch failed, save failed", "processed", "save failed"}

\* C13, as stated: every run that has ended has issued exactly one update.
C13_ExactlyOneUpdate ==
    \A id \in DOMAIN run : run[id].pc = "done" => run[id].saves = 1

\* C13, amended: no run issues more than one update; a run that has ended
\* has issued one exactly when its fetch returned a transport error or it
\* reached the commit, and none otherwise; the update is the run's last
\* step, and where it changes a row it is the row of the run's article,
\* whose status becomes "failed" in the first case and "unread" in the
\* second.
C13_AtMostOneUpdate ==
    [][\A id \in Ids :
          id \in DOMAIN run' =>
             /\ run'[id].saves <= 1
             /\ run'[id].pc = "done" =>
                   (run'[id].saves = 1 <=> run'[id].exit \in SavingExits)
             /\ (id \in DOMAIN run /\ run'[id] # run[id]) =>
                   IF run'[id].saves = run[id].saves
                   THEN db' = db
                   ELSE /\ run[id].saves = 0
                        /\ run'[id].pc = "done"
                        /\ run'[id].rows = 0 => db' = db
                        /\ run'[id].rows = 1 =>
                              /\ db' = [db EXCEPT ![id] = db'[id]]
                              /\ db'[id].updated_at = db[id].updated_at + 1
                              /\ db'[id].status =
                                    IF run'[id].exit = "processed"
                                    THEN "unread" ELSE "failed"]_vars

\* C13's case: a run ended on a transport error after one update, which
\* changed its row to "failed".
C13_Witness ==
    \E id \in DOMAIN run \cap DOMAIN db :
        /\ run[id].exit = "fetch failed"
        /\ run[id].saves = 1
        /\ run[id].rows = 1
        /\ db[id].status = "failed"
        /\ db[id].updated_at = 2

\* The title texts that are empty once trimmed.
BlankTitles == {t \in TitleTexts : t = "" \/ t = " "}

\* C14, as stated: the title a commit persists is the submitted url (the url
\* of the row before the commit) when the extracted title is empty once
\* trimmed, and the extracted text otherwise; so it is the submitted url or a
\* title text that is not blank, and not the redirect's url.
C14_TitleFallback ==
    [][\A id \in Ids :
          (Commit(id, TRUE) /\ id \in DOMAIN db) =>
             /\ db'[id].title \in {db[id].url} \cup (TitleTexts \ BlankTitles)
             /\ db'[id].title = RedirectURL => db[id].url = RedirectURL]_vars

Commas(text) == Cardinality({k \in 1..Len(text) : text[k] = ","})

\* C16: the tags a commit persists are the returned text cut at every comma:
\* no tag holds a comma, there is one tag more than there are commas, the tags
\* joined with commas are the returned text (so blanks, empty tags, repeated
\* tags and their order are kept), which is what the tags column then holds
\* and what a read of the row splits again; "a, b,c" gives "a", " b", "c".
C16_TagsSplitAtCommas ==
    [][\A id \in Ids :
          (Commit(id, TRUE) /\ id \in DOMAIN db) =>
             LET text == run[id].tagsText
                 tags == Scan(id, db'[id]).Tags
             IN  /\ db'[id].tags = text
                 /\ Join(tags) = text
                 /\ Len(tags) = Commas(text) + 1
                 /\ \A k \in 1..Len(tags) : Commas(tags[k]) = 0
                 /\ text = <<"a", ",", " ", "b", ",", "c">> =>
                       tags = << <<"a">>, <<" ", "b">>, <<"c">> >>
                 /\ text = <<"a", ",", ",", "a">> =>
                       tags = << <<"a">>, << >>, <<"a">> >>]_vars

\* C16's case: a run has committed the text "a,,a", and its row reads back
\* as three tags, the first and the last the same, the second empty.
C16_Witness ==
    \E id \in DOMAIN run \cap DOMAIN db :
        /\ run[id].exit = "processed"
        /\ run[id].rows = 1
        /\ db[id].tags = <<"a", ",", ",", "a">>
        /\ Len(Scan(id, db[id]).Tags) = 3
        /\ Scan(id, db[id]).Tags[1] = Scan(id, db[id]).Tags[3]

\* C17: a submission whose insert fails is answered with 500 and leaves the
\* table, the goroutines and the structs as they were; and whenever a
\* goroutine is launched, it is by a submission whose insert succeeded, on
\* the id of the row just inserted for the submitting user with status
\* "processing".
C17_LaunchOnlyAfterInsert ==
    [][/\ \A u \in Users, url \in RequestURLs :
             SubmitArticle(u, url, FALSE) =>
                /\ httpResp' = Answer(u, 0, 500)
                /\ db' = db
                /\ run' = run /\ article' = article /\ handler' = handler
       /\ \A id \in DOMAIN run' \ DOMAIN run :
             /\ \E u \in Users, url \in RequestURLs :
                   /\ SubmitArticle(u, url, TRUE)
                   /\ db'[id].user_id = u /\ db'[id].url = url
             /\ id \notin DOMAIN db
             /\ id \in DOMAIN db'
             /\ db'[id].status = "processing"
             /\ run'[id] = NewRun
             /\ article'[id].ID = id]_vars

\* C17's case: the one submission failed at the insert: it was answered with
\* 500, the id it drew is spent, and there is no row and no goroutine for it.
C17_Witness ==
    /\ httpResp.code = 500
    /\ httpResp.id = 0
    /\ nextId = MaxArticles + 1
    /\ DOMAIN run = {}
    /\ DOMAIN db \subseteq {StoredId}

\* Tag filters with a capital letter or one of LIKE's wildcards.
WildcardFilters == {<<"X">>, <<"_">>, <<"%">>}

\* Whether part occurs in text, letter for letter.
Contains(text, part) ==
    \E k \in 0..Len(text) :
        k + Len(part) <= Len(text) /\ SubSeq(text, k + 1, k + Len(part)) = part

\* C18, as stated: GetArticlesByUserID returns exactly the articles of the
\* user whose status is the status filter, if there is one, and whose tags
\* column contains the tag filter letter for letter, if there is one.
C18_ExactAndLiteral ==
    \A u \in Users, sf \in StatusFilters, tf \in TagFilters \cup WildcardFilters :
        GetArticlesByUserID(db, u, sf, tf)
           = {Scan(i, db[i]) :
                 i \in {j \in DOMAIN db :
                           /\ db[j].user_id = u
                           /\ sf # "" => db[j].status = sf
                           /\ Len(tf) # 0 => Contains(db[j].tags, tf)}}

\* A request with bearer token k that a protected handler serves.
ServedWith(k) ==
    LET u == AuthMiddleware(k)
    IN  /\ u # ""
        /\ \/ SubmitBadRequest(u)
           \/ \E url \in RequestURLs, dbOK \in BOOLEAN : SubmitArticle(u, url, dbOK)
           \/ \E id \in Ids, s \in RequestStatuses, dbOK \in BOOLEAN :
                 HandleUpdateStatus(u, id, s, dbOK)
           \/ \E id \in Ids, t \in RequestTags, dbOK \in BOOLEAN :
                 HandleUpdateTags(u, id, t, dbOK)
           \/ \E id \in Ids, dbOK \in BOOLEAN : HandleDelete(u, id, dbOK)

\* C19, as stated: once LogoutUser has put a token into revoked_tokens, no
\* request bearing that token is served by a protected handler.
C19_LogoutInvalidates ==
    [][\A k \in revoked : ~ServedWith(k)]_vars

\* C20, as stated: while the credential is missing no submission is
\* accepted, so that no article is created and no goroutine runs, and no
\* goroutine ends the process.
C20_FatalAtStartupOnly ==
    /\ ~apiKey => nextId = 1 /\ DOMAIN run = {} /\ DOMAIN db \subseteq {StoredId}
    /\ \A id \in DOMAIN run : run[id].exit # "fatal"
    /\ alive

\* The values of the status column.
Statuses == {"processing", "unread", "read", "failed"}

C22_IdAndOwnerFixed ==
    [][/\ \A id \in DOMAIN db \cap DOMAIN db' :
             db'[id].user_id = db[id].user_id
       /\ \A id \in DOMAIN db' \ DOMAIN db :
             /\ id = nextId /\ nextId' = nextId + 1
             /\ id \notin DOMAIN run
             /\ db'[id].updated_at = 1
             /\ DOMAIN db' = DOMAIN db \cup {id}
       /\ \A id \in DOMAIN db \ DOMAIN db' :
             /\ httpResp' = Answer(db[id].user_id, id, 204)
             /\ DOMAIN db' = DOMAIN db \ {id}
       /\ \A id \in DOMAIN run :
             run'[id].saves > run[id].saves =>
                /\ DOMAIN db' = DOMAIN db
                /\ \A i \in DOMAIN db \ {id} : db'[i] = db[i]]_vars

\* C22's case: a row has been written by the insert, by its run's commit and
\* by two requests of its owner, and it is still the row of that id.
C22_Witness ==
    \E id \in DOMAIN run \cap DOMAIN db :
        /\ run[id].exit = "processed"
        /\ run[id].rows = 1
        /\ db[id].updated_at = 4
        /\ nreq = 2

\* C23, as stated: the tag list a write stores is the tag list a read of the
\* row returns, from GetArticleByID and from GetArticlesByUserID: for the
\* insert of a submission (the empty list), for a request to the tags
\* endpoint that is answered 200, and for the commit of a run.
C23_TagsRoundTrip ==
    [][/\ \A u \in Users, url \in RequestURLs :
             SubmitArticle(u, url, TRUE) =>
                /\ GetArticleByID(db', nextId, u)[1].Tags = NewArticle(u, url).Tags
                /\ \A a \in GetArticlesByUserID(db', u, "", << >>) :
                      a.ID = nextId => a.Tags = << >> /\ Len(a.Tags) = 0
       /\ nreq' # nreq =>
             LET u == httpResp'.user
                 id == httpResp'.id
             IN  \A t \in RequestTags :
                     (HandleUpdateTags(u, id, t, TRUE) /\ httpResp'.code = 200) =>
                        /\ GetArticleByID(db', id, u)[1].Tags = t
                        /\ \A a \in GetArticlesByUserID(db', u, "", << >>) :
                              a.ID = id => a.Tags = t
       /\ \A id \in Ids :
             (Commit(id, TRUE) /\ id \in DOMAIN db) =>
                Scan(id, db'[id]).Tags = Split(run[id].tagsText)]_vars

=============================================================================
